---------------------------- MODULE Spec2Model ----------------------------
(***************************************************************************)
(* A model of the PDF batch renamer, src/pdf_renamer.py: the functions     *)
(* sanitize_filename, is_safe_path, get_unique_filename and process_pdfs.  *)
(*                                                                         *)
(* A Python string is a sequence of characters; a character is a           *)
(* one-element TLA+ string ("a", ".", " ").  The tab character is written  *)
(* "TAB".  A path is a pair <<directory, name>>: os.path.join(d, n).       *)
(***************************************************************************)
EXTENDS Integers, Sequences, FiniteSets, TLC

VARIABLES
    fs,                 \* the tree on disk: path -> entry
    fs0,                \* the tree when the current run of process_pdfs began
    handle_duplicates,  \* process_pdfs argument (the same in every run of a session)
    dry_run,            \* process_pdfs argument of the current run
    pc,                 \* "idle", "walk" (inside the os.walk loop), "done"
    dirs,               \* directories os.walk has still to yield
    root_dir,           \* the directory os.walk yielded last
    files,              \* names of root_dir's listing not yet iterated
    total_files,
    renamed_count,
    skipped_count,
    error_count,
    rename_operations,
    log,                \* the file at log_path of the current run
    prev,               \* what the previous run of the session reported
    last,               \* what the last iteration of the file loop did
    disk_renames,       \* the os.rename calls of the current run that succeeded
    arg,                \* argument of the function under test (SpecSan, SpecUnique)
    ret                 \* its result

vars == <<fs, fs0, handle_duplicates, dry_run, pc, dirs, root_dir, files,
          total_files, renamed_count, skipped_count, error_count,
          rename_operations, log, prev, last, disk_renames, arg, ret>>

pipeline_vars == <<fs, fs0, handle_duplicates, dry_run, pc, dirs, root_dir,
                   files, total_files, renamed_count, skipped_count, error_count,
                   rename_operations, log, prev, last, disk_renames>>

-----------------------------------------------------------------------------
(* Characters and strings *)

\* ord(char) for the characters the model uses
Ord(c) ==
    CASE c = "TAB" -> 9
      [] c = " " -> 32   [] c = "(" -> 40   [] c = ")" -> 41
      [] c = "." -> 46   [] c = "/" -> 47
      [] c = "0" -> 48   [] c = "1" -> 49   [] c = "2" -> 50   [] c = "3" -> 51
      [] c = "4" -> 52   [] c = "5" -> 53   [] c = "6" -> 54   [] c = "7" -> 55
      [] c = "8" -> 56   [] c = "9" -> 57
      [] c = "?" -> 63
      [] c = "D" -> 68   [] c = "F" -> 70   [] c = "P" -> 80   [] c = "R" -> 82
      [] c = "a" -> 97   [] c = "b" -> 98   [] c = "d" -> 100  [] c = "f" -> 102
      [] c = "n" -> 110  [] c = "p" -> 112  [] c = "t" -> 116  [] c = "x" -> 120

\* str.lower() on one character
LowerChar(c) ==
    CASE c = "D" -> "d" [] c = "F" -> "f" [] c = "P" -> "p" [] c = "R" -> "r"
      [] OTHER -> c

Lower(s) == [i \in 1..Len(s) |-> LowerChar(s[i])]

\* s.endswith(suffix)
EndsWith(s, suffix) ==
    /\ Len(s) >= Len(suffix)
    /\ SubSeq(s, Len(s) - Len(suffix) + 1, Len(s)) = suffix

\* s[:n]
Prefix(s, n) == IF Len(s) > n THEN SubSeq(s, 1, n) ELSE s

\* s.lstrip(chars), s.rstrip(chars), s.strip(chars)
RECURSIVE LStrip(_, _)
LStrip(s, chars) ==
    IF s # <<>> /\ Head(s) \in chars THEN LStrip(Tail(s), chars) ELSE s

RECURSIVE RStrip(_, _)
RStrip(s, chars) ==
    IF s # <<>> /\ s[Len(s)] \in chars
    THEN RStrip(SubSeq(s, 1, Len(s) - 1), chars)
    ELSE s

Strip(s, chars) == RStrip(LStrip(s, chars), chars)

\* the characters str.strip() without argument removes
Whitespace == {" ", "TAB"}

\* s.replace(char, '') for a single character
RemoveChar(s, char) == SelectSeq(s, LAMBDA c : c # char)

\* the smallest index at which ".." occurs in s, 0 when it does not (str.find + 1)
FirstDotDot(s) ==
    LET hits == {i \in 1..(Len(s) - 1) : s[i] = "." /\ s[i + 1] = "."}
    IN  IF hits = {} THEN 0 ELSE CHOOSE i \in hits : \A j \in hits : i <= j

\* s.replace('..', ''): the occurrences are found from the left, each
\* search resuming after the occurrence before
RECURSIVE ReplaceDotDot(_)
ReplaceDotDot(s) ==
    LET i == FirstDotDot(s)
    IN  IF i = 0 THEN s
        ELSE SubSeq(s, 1, i - 1) \o ReplaceDotDot(SubSeq(s, i + 2, Len(s)))

\* the largest index of char in s, 0 when there is none (str.rfind + 1)
LastIndexOf(s, char) ==
    LET hits == {i \in 1..Len(s) : s[i] = char}
    IN  IF hits = {} THEN 0 ELSE CHOOSE i \in hits : \A j \in hits : j <= i

\* os.path.basename (posixpath): what follows the last "/"
Basename(s) == SubSeq(s, LastIndexOf(s, "/") + 1, Len(s))

\* s.rsplit(' ', 1)[0]
RSplitSpaceFirst(s) ==
    LET i == LastIndexOf(s, " ")
    IN  IF i = 0 THEN s ELSE SubSeq(s, 1, i - 1)

DigitChar(d) ==
    CASE d = 0 -> "0" [] d = 1 -> "1" [] d = 2 -> "2" [] d = 3 -> "3"
      [] d = 4 -> "4" [] d = 5 -> "5" [] d = 6 -> "6" [] d = 7 -> "7"
      [] d = 8 -> "8" [] d = 9 -> "9"

\* str(n) for n >= 0
RECURSIVE IntToStr(_)
IntToStr(n) ==
    IF n < 10 THEN <<DigitChar(n)>>
    ELSE IntToStr(n \div 10) \o <<DigitChar(n % 10)>>

\* n copies of the character c
Fill(c, n) == [i \in 1..n |-> c]

-----------------------------------------------------------------------------
(* sanitize_filename *)

MAX_FILENAME_LENGTH == 255

PdfExtension == <<".", "p", "d", "f">>

invalid_chars == <<"<", ">", ":", "\"", "/", "\\", "|", "?", "*">>

RECURSIVE RemoveInvalid(_, _)
RemoveInvalid(s, chars) ==
    IF chars = <<>> THEN s
    ELSE RemoveInvalid(RemoveChar(s, Head(chars)), Tail(chars))

RemoveControl(s) == SelectSeq(s, LAMBDA c : Ord(c) >= 32)

Truncate(s, max_length) ==
    IF Len(s) > max_length THEN RSplitSpaceFirst(Prefix(s, max_length)) ELSE s

sanitize_filename_max(filename, max_length) ==
    LET f1 == RemoveInvalid(filename, invalid_chars)
        f2 == RemoveControl(f1)
        f3 == Strip(f2, {".", " "})
        f4 == ReplaceDotDot(f3)
        f5 == Basename(f4)
    IN  Truncate(f5, max_length)

\* the default max_length=MAX_FILENAME_LENGTH - 4
sanitize_filename(filename) ==
    sanitize_filename_max(filename, MAX_FILENAME_LENGTH - 4)

-----------------------------------------------------------------------------
(* The tree on disk *)

\* A regular file: meta is what fitz.open(path).metadata gives: "ok" (a
\* mapping whose "title" is the field title), "none" (no metadata), or
\* "raise" (the reader raises).
File(meta, title) ==
    [kind |-> "file", meta |-> meta, title |-> title,
     resolves |-> "inside", target_exists |-> TRUE]

\* A symbolic link: resolves says where Path.resolve() lands ("inside" the
\* configured root, "outside" it, or "error": it raises OSError);
\* target_exists says whether the link's target exists.
Link(resolves, target_exists) ==
    [kind |-> "link", meta |-> "none", title |-> <<>>,
     resolves |-> resolves, target_exists |-> target_exists]

islink(path) == path \in DOMAIN fs /\ fs[path].kind = "link"

\* a variant that finds no path taken
exists_blind(path) == FALSE

\* os.path.exists follows links: False for a dangling link
exists(path) == path \in DOMAIN fs /\ fs[path].target_exists

\* os.rename(src, dst) when it succeeds: the entry moves, replacing dst
os_rename(src, dst) ==
    [p \in (DOMAIN fs \ {src}) \cup {dst} |-> IF p = dst THEN fs[src] ELSE fs[p]]

\* where Path(path).resolve() lands; os.walk does not follow directory
\* links, so only a link at the path itself can lead out of the root
ResolvesTo(path) == IF islink(path) THEN fs[path].resolves ELSE "inside"

\* a variant that trusts every path
is_safe_path_unchecked(target_path) == TRUE

is_safe_path(target_path) == ResolvesTo(target_path) = "inside"

-----------------------------------------------------------------------------
(* get_unique_filename *)

max_attempts == 1000

NoPath == <<>>
NoError == ""

CounterSuffix(counter) == <<" ", "(">> \o IntToStr(counter) \o <<")">>

\* the candidate path the loop builds for a counter
NumberedPath(directory, base_name, counter) ==
    LET suffix == CounterSuffix(counter)
        max_base_length == MAX_FILENAME_LENGTH - Len(PdfExtension) - Len(suffix)
        truncated_base == IF Len(base_name) > max_base_length
                          THEN SubSeq(base_name, 1, max_base_length)
                          ELSE base_name
    IN  <<directory, truncated_base \o suffix \o PdfExtension>>

\* what the loop body finds for a counter: it goes on to the next counter
\* when the candidate is a link and when it exists
CandidateTaken(directory, base_name, counter) ==
    LET filepath == NumberedPath(directory, base_name, counter)
    IN  islink(filepath) \/ exists(filepath)

\* the while loop, entered with the given counter: it returns the
\* candidate of the first counter below max_attempts that is not taken,
\* and falls through to the failure when there is none
ProbeNumbered(directory, base_name, counter) ==
    LET tried == counter..(max_attempts - 1)
    IN  IF \E c \in tried : ~CandidateTaken(directory, base_name, c)
        THEN LET first == CHOOSE c \in tried :
                             /\ ~CandidateTaken(directory, base_name, c)
                             /\ \A j \in counter..(c - 1) :
                                   CandidateTaken(directory, base_name, j)
             IN  [path |-> NumberedPath(directory, base_name, first), error |-> NoError]
        ELSE [path |-> NoPath, error |-> "Too many files with same name"]

FirstCounter == 1

\* a variant that never looks whether the name is taken
get_unique_filename_unchecked(directory, base_name) ==
    [path |-> <<directory, base_name \o PdfExtension>>, error |-> NoError]

get_unique_filename(directory, base_name) ==
    LET filepath == <<directory, base_name \o PdfExtension>>
    IN  IF islink(filepath)
        THEN [path |-> NoPath, error |-> "Target is a symbolic link"]
        ELSE IF ~exists(filepath)
             THEN [path |-> filepath, error |-> NoError]
             ELSE ProbeNumbered(directory, base_name, FirstCounter)

-----------------------------------------------------------------------------
(* process_pdfs: one iteration of the file loop *)

TitleLimit == 1000

\* name.lower().endswith('.pdf')
IsPdfName(name) == EndsWith(Lower(name), PdfExtension)

\* metadata.get("title", "").strip()
TitleOf(file_path) == Strip(fs[file_path].title, Whitespace)

\* new_file_path, for a title that sanitizes to sanitized_title:
\* get_unique_filename's (path, error_msg) when duplicates are handled,
\* else the literal name
Target(root, sanitized_title) ==
    IF handle_duplicates
    THEN get_unique_filename(root, sanitized_title)
    ELSE [path |-> <<root, sanitized_title \o PdfExtension>>, error |-> NoError]

\* what an iteration settles: the branch it takes, with the new path and
\* the title where the branch has computed them
Branch(outcome, new_file_path, title) ==
    [outcome |-> outcome, new |-> new_file_path, title |-> title]

\* the loop body from the error_msg check on, new_file_path in hand
PlanTarget(file_path, title, target) ==
    IF target.error # NoError THEN Branch("skip_resolver", NoPath, title)
    ELSE IF file_path = target.path THEN Branch("skip_already_named", target.path, title)
    ELSE IF ~handle_duplicates /\ exists(target.path)
         THEN Branch("skip_target_exists", target.path, title)
    ELSE IF dry_run THEN Branch("would_rename", target.path, title)
    ELSE IF ~is_safe_path(target.path)
         THEN Branch("skip_unsafe_target", target.path, title)
    ELSE Branch("rename", target.path, title)

\* the loop body from the sanitized title on
PlanSanitized(file_path, title, sanitized_title) ==
    IF sanitized_title = <<>> THEN Branch("skip_empty_sanitized", NoPath, title)
    ELSE PlanTarget(file_path, title, Target(file_path[1], sanitized_title))

\* the loop body from the stripped title on
PlanTitled(file_path, title) ==
    IF title = <<>> THEN Branch("skip_no_title", NoPath, title)
    ELSE IF Len(title) > TitleLimit THEN Branch("skip_title_too_long", NoPath, title)
    ELSE PlanSanitized(file_path, title, sanitize_filename(title))

\* the branch of the loop body a .pdf entry takes, the checks in the order
\* the code makes them
Plan(file_path) ==
    IF ~is_safe_path(file_path) THEN Branch("skip_unsafe_source", NoPath, <<>>)
    ELSE IF islink(file_path) THEN Branch("skip_symlink", NoPath, <<>>)
    ELSE IF fs[file_path].meta = "raise" THEN Branch("error_reader", NoPath, <<>>)
    ELSE IF fs[file_path].meta = "none" THEN Branch("skip_no_metadata", NoPath, <<>>)
    ELSE PlanTitled(file_path, TitleOf(file_path))

Outcome(file_path) == Plan(file_path).outcome

NewFilePath(file_path) == Plan(file_path).new

NoStep ==
    [file |-> NoPath, outcome |-> "none", src_islink |-> FALSE, new |-> NoPath,
     new_islink |-> FALSE, new_resolves |-> "inside"]

\* the record of an iteration, taken before the iteration changes the tree
StepTo(file_path, outcome, new) ==
    [file |-> file_path, outcome |-> outcome, src_islink |-> islink(file_path),
     new |-> new, new_islink |-> islink(new), new_resolves |-> ResolvesTo(new)]

StepRecord(file_path, outcome) == StepTo(file_path, outcome, NewFilePath(file_path))

\* the entry appended to rename_operations
OperationOf(file_path, plan) ==
    [original |-> file_path, new |-> plan.new, title |-> plan.title]

Operation(file_path) == OperationOf(file_path, Plan(file_path))

\* a .pdf entry of the listing that takes the given branch
Takes(name, outcome) ==
    /\ pc = "walk"
    /\ name \in files
    /\ Outcome(<<root_dir, name>>) = outcome

\* what every iteration over a .pdf entry does, whatever its branch
Iterate(name, outcome) ==
    /\ files' = files \ {name}
    /\ total_files' = total_files + 1
    /\ last' = StepRecord(<<root_dir, name>>, outcome)
    /\ UNCHANGED <<fs0, handle_duplicates, dry_run, pc, dirs, root_dir, log,
                   prev, arg, ret>>

\* a variant whose continue forgets the counter
Skip_uncounted(name, outcome) ==
    /\ Takes(name, outcome)
    /\ Iterate(name, outcome)
    /\ UNCHANGED <<fs, renamed_count, skipped_count, error_count, rename_operations,
                   disk_renames>>

\* skipped_count += 1; continue
Skip(name, outcome) ==
    /\ Takes(name, outcome)
    /\ Iterate(name, outcome)
    /\ skipped_count' = skipped_count + 1
    /\ UNCHANGED <<fs, renamed_count, error_count, rename_operations, disk_renames>>

SkipUnsafeSource == \E name \in files : Skip(name, "skip_unsafe_source")

SkipSymlink == \E name \in files : Skip(name, "skip_symlink")

SkipNoMetadata == \E name \in files : Skip(name, "skip_no_metadata")

SkipNoTitle == \E name \in files : Skip(name, "skip_no_title")

SkipTitleTooLong == \E name \in files : Skip(name, "skip_title_too_long")

SkipEmptySanitized == \E name \in files : Skip(name, "skip_empty_sanitized")

SkipResolver == \E name \in files : Skip(name, "skip_resolver")

SkipAlreadyNamed == \E name \in files : Skip(name, "skip_already_named")

SkipTargetExists == \E name \in files : Skip(name, "skip_target_exists")

SkipUnsafeTarget == \E name \in files : Skip(name, "skip_unsafe_target")

\* fitz.open or the metadata access raises: except Exception
ReaderError ==
    \E name \in files :
        /\ Takes(name, "error_reader")
        /\ Iterate(name, "error_reader")
        /\ error_count' = error_count + 1
        /\ UNCHANGED <<fs, renamed_count, skipped_count, rename_operations, disk_renames>>

\* dry run: the operation is recorded, nothing is renamed
WouldRename ==
    \E name \in files :
        /\ Takes(name, "would_rename")
        /\ Iterate(name, "would_rename")
        /\ renamed_count' = renamed_count + 1
        /\ rename_operations' = Append(rename_operations, Operation(<<root_dir, name>>))
        /\ UNCHANGED <<fs, skipped_count, error_count, disk_renames>>

\* live run: os.rename succeeds
Rename ==
    \E name \in files :
        /\ Takes(name, "rename")
        /\ Iterate(name, "rename")
        /\ fs' = os_rename(<<root_dir, name>>, NewFilePath(<<root_dir, name>>))
        /\ renamed_count' = renamed_count + 1
        /\ rename_operations' = Append(rename_operations, Operation(<<root_dir, name>>))
        /\ disk_renames' = Append(disk_renames,
                                  <<<<root_dir, name>>, NewFilePath(<<root_dir, name>>)>>)
        /\ UNCHANGED <<skipped_count, error_count>>

\* a variant that records the operation before os.rename raises
RenameFails_recorded ==
    \E name \in files :
        /\ Takes(name, "rename")
        /\ Iterate(name, "rename_failed")
        /\ error_count' = error_count + 1
        /\ rename_operations' = Append(rename_operations, Operation(<<root_dir, name>>))
        /\ UNCHANGED <<fs, renamed_count, skipped_count, disk_renames>>

\* live run: os.rename raises OSError: except Exception
RenameFails ==
    \E name \in files :
        /\ Takes(name, "rename")
        /\ Iterate(name, "rename_failed")
        /\ error_count' = error_count + 1
        /\ UNCHANGED <<fs, renamed_count, skipped_count, rename_operations, disk_renames>>

-----------------------------------------------------------------------------
(* process_pdfs: the walk and the end of the run *)

\* os.walk(directory_path) is top-down: the root, then its subdirectory
WalkOrder == <<"root", "root/sub">>

\* the names os.walk lists in a directory (their order is the file
\* system's: the loop may meet them in any order)
Listing(directory) == {path[2] : path \in {q \in DOMAIN fs : q[1] = directory}}

\* the names the loop does not pass over: if not name.lower().endswith('.pdf'): continue
PdfListing(directory) == {name \in Listing(directory) : IsPdfName(name)}

NoLog == [status |-> "absent", total |-> 0, blocks |-> <<>>]

NoPrev ==
    [valid |-> FALSE, dry_run |-> TRUE, renamed |-> 0, skipped |-> 0, errors |-> 0,
     operations |-> <<>>]

Summary ==
    [valid |-> TRUE, dry_run |-> dry_run, renamed |-> renamed_count,
     skipped |-> skipped_count, errors |-> error_count,
     operations |-> rename_operations]

\* what the start of process_pdfs sets, given a valid, accessible
\* directory: the counters and the operation list start empty, log_path
\* names a new file
Begin ==
    /\ pc' = "walk"
    /\ fs0' = fs
    /\ dirs' = WalkOrder
    /\ root_dir' = ""
    /\ files' = {}
    /\ total_files' = 0
    /\ renamed_count' = 0
    /\ skipped_count' = 0
    /\ error_count' = 0
    /\ rename_operations' = <<>>
    /\ log' = NoLog
    /\ last' = NoStep
    /\ disk_renames' = <<>>
    /\ UNCHANGED <<fs, handle_duplicates, arg, ret>>

\* the first run of a session: a preview (dry_run, the default) or live
StartRun ==
    /\ pc = "idle"
    /\ dry_run' \in BOOLEAN
    /\ prev' = prev
    /\ Begin

\* a second run, live, on the tree the first run left
RunAgain ==
    /\ pc = "done"
    /\ ~prev.valid
    /\ dry_run' = FALSE
    /\ prev' = Summary
    /\ Begin

\* os.walk yields the next directory with its listing; the entries that
\* do not end in .pdf are passed over without being counted
NextDir ==
    /\ pc = "walk"
    /\ files = {}
    /\ dirs # <<>>
    /\ root_dir' = Head(dirs)
    /\ dirs' = Tail(dirs)
    /\ files' = PdfListing(Head(dirs))
    /\ UNCHANGED <<fs, fs0, handle_duplicates, dry_run, pc, total_files,
                   renamed_count, skipped_count, error_count, rename_operations,
                   log, prev, last, disk_renames, arg, ret>>

WalkOver == pc = "walk" /\ files = {} /\ dirs = <<>>

EndRun ==
    /\ pc' = "done"
    /\ UNCHANGED <<fs, fs0, handle_duplicates, dry_run, dirs, root_dir, files,
                   total_files, renamed_count, skipped_count, error_count,
                   rename_operations, prev, last, disk_renames, arg, ret>>

\* a variant that forgets the dry-run test
LogWanted_any_mode == rename_operations # <<>>

\* if rename_operations and not dry_run
LogWanted == rename_operations # <<>> /\ ~dry_run

\* the header's total and one block per recorded operation
LogContent ==
    [status |-> "written", total |-> renamed_count, blocks |-> rename_operations]

WriteLog ==
    /\ WalkOver
    /\ LogWanted
    /\ log' = LogContent
    /\ EndRun

\* open or write raises: "Could not create log file"; what is on disk
\* at log_path is then not the complete log
WriteLogFails ==
    /\ WalkOver
    /\ LogWanted
    /\ log' = [status |-> "failed", total |-> 0, blocks |-> <<>>]
    /\ EndRun

FinishWithoutLog ==
    /\ WalkOver
    /\ ~LogWanted
    /\ log' = log
    /\ EndRun

-----------------------------------------------------------------------------
(* The trees a session starts from *)

\* how many .pdf entries a tree starts with
MaxFiles == 2

Name_a == <<"a", ".", "p", "d", "f">>
Name_b == <<"b", ".", "P", "D", "F">>
Name_c == <<"c", ".", "p", "d", "f">>
Name_R == <<"R", ".", "p", "d", "f">>
Name_R1 == <<"R", " ", "(", "1", ")", ".", "p", "d", "f">>
Name_n == <<"n", ".", "t", "x", "t">>

PdfPaths ==
    {<<"root", Name_a>>, <<"root", Name_b>>, <<"root", Name_c>>, <<"root", Name_R>>,
     <<"root", Name_R1>>, <<"root/sub", Name_a>>}

OtherPaths == {<<"root", Name_n>>}

\* titles that sanitize to the base name R
GoodTitles == {<<"R">>, <<"/", "R", ".">>}

\* titles the loop skips: blank, nothing left after sanitizing, too long
BadTitles == {<<" ">>, <<"?">>, Fill("x", TitleLimit + 1)}

\* dangling links into and out of the root, a link whose resolution
\* fails, a link to a file outside the root
Links ==
    {Link("inside", FALSE), Link("outside", FALSE), Link("error", FALSE),
     Link("outside", TRUE)}

\* what an initial tree may hold at a path: under a.pdf and b.PDF, which
\* the loop only meets as sources, any file and a dangling link into or
\* out of the root; under the names the renamer itself produces, a titled
\* file, a file without metadata or any link; titled files elsewhere
EntriesAt(path) ==
    IF path \in {<<"root", Name_a>>, <<"root", Name_b>>}
    THEN {File("ok", t) : t \in GoodTitles \cup BadTitles}
         \cup {File("none", <<>>), File("raise", <<>>)}
         \cup {Link("inside", FALSE), Link("outside", FALSE)}
    ELSE IF path \in {<<"root", Name_R>>, <<"root", Name_R1>>}
    THEN {File("ok", t) : t \in GoodTitles} \cup {File("none", <<>>)} \cup Links
    ELSE IF path = <<"root", Name_c>>
    THEN {File("ok", t) : t \in GoodTitles}
    ELSE {File("ok", <<"R">>)}

AllEntries == UNION {EntriesAt(path) : path \in PdfPaths}

\* up to MaxFiles .pdf entries
PdfTrees ==
    UNION {{tree \in [S -> AllEntries] : \A path \in S : tree[path] \in EntriesAt(path)} :
             S \in {T \in SUBSET PdfPaths : Cardinality(T) <= MaxFiles}}

\* beside them, a file that is no PDF
WithOthers(tree) ==
    [path \in DOMAIN tree \cup OtherPaths |->
        IF path \in DOMAIN tree THEN tree[path] ELSE File("none", <<>>)]

InitialTrees == {WithOthers(tree) : tree \in PdfTrees}

Init ==
    /\ fs \in InitialTrees
    /\ fs0 = fs
    /\ handle_duplicates \in BOOLEAN
    /\ dry_run = TRUE
    /\ pc = "idle"
    /\ dirs = <<>>
    /\ root_dir = ""
    /\ files = {}
    /\ total_files = 0
    /\ renamed_count = 0
    /\ skipped_count = 0
    /\ error_count = 0
    /\ rename_operations = <<>>
    /\ log = NoLog
    /\ prev = NoPrev
    /\ last = NoStep
    /\ disk_renames = <<>>
    /\ arg = <<>>
    /\ ret = <<>>

Next ==
    \/ StartRun
    \/ RunAgain
    \/ NextDir
    \/ SkipUnsafeSource
    \/ SkipSymlink
    \/ ReaderError
    \/ SkipNoMetadata
    \/ SkipNoTitle
    \/ SkipTitleTooLong
    \/ SkipEmptySanitized
    \/ SkipResolver
    \/ SkipAlreadyNamed
    \/ SkipTargetExists
    \/ SkipUnsafeTarget
    \/ WouldRename
    \/ Rename
    \/ RenameFails
    \/ WriteLog
    \/ WriteLogFails
    \/ FinishWithoutLog

Spec == Init /\ [][Next]_vars

-----------------------------------------------------------------------------
(* Properties of process_pdfs *)

Directories == {"root", "root/sub"}

\* the .pdf entries a tree holds in a directory
PdfsIn(tree, directory) ==
    {path \in DOMAIN tree : path[1] = directory /\ IsPdfName(path[2])}

\* the base name a regular file's title sanitizes to (<<>> when the loop
\* skips the file before it has one)
BaseOf(entry) ==
    LET title == Strip(entry.title, Whitespace)
    IN  IF entry.kind # "file" \/ entry.meta # "ok" \/ title = <<>>
           \/ Len(title) > TitleLimit
        THEN <<>>
        ELSE sanitize_filename(title)

\* every .pdf entry of the directory is a regular file whose title
\* sanitizes to base_name
AllSanitizeTo(tree, directory, base_name) ==
    /\ base_name # <<>>
    /\ PdfsIn(tree, directory) # {}
    /\ \A path \in PdfsIn(tree, directory) : BaseOf(tree[path]) = base_name

\* base.pdf for k = 0, base (k).pdf for k > 0
CandidatePath(directory, base_name, k) ==
    IF k = 0 THEN <<directory, base_name \o PdfExtension>>
    ELSE NumberedPath(directory, base_name, k)

\* the recorded operations on files of a directory, in order
OperationsIn(directory) ==
    SelectSeq(rename_operations, LAMBDA op : op.original[1] = directory)

\* the k-th file renamed in the directory got base.pdf (k = 1) or base (k-1).pdf
NumberedInOrder(directory, base_name) ==
    LET ops == OperationsIn(directory)
    IN  /\ Len(ops) = Cardinality(PdfsIn(fs0, directory))
        /\ \A k \in 1..Len(ops) : ops[k].new = CandidatePath(directory, base_name, k - 1)

BaseNames == {<<"R">>}

LiveRunDone == pc = "done" /\ ~dry_run

\* C1: after a live run that met no error, a second live run renames
\* nothing: its renamed count stays 0, it calls os.rename for no file and
\* the tree stays as the first run left it.
C1_SecondRunRenamesNothing ==
    (prev.valid /\ ~prev.dry_run /\ prev.errors = 0 /\ ~dry_run)
        => /\ renamed_count = 0
           /\ last.outcome \notin {"rename", "rename_failed"}
           /\ fs = fs0

CandidatesFree(tree, directory, base_name) ==
    \A k \in 0..(Cardinality(PdfsIn(tree, directory)) - 1) :
        CandidatePath(directory, base_name, k) \notin DOMAIN tree

C4_SymlinksRefused ==
    /\ last.src_islink => last.outcome \in {"skip_unsafe_source", "skip_symlink"}
    /\ last.new_islink => last.outcome # "rename"

\* C5: during and after a dry run the tree is the one the run started
\* from and nothing has been written at log_path.
C5_DryRunPurity ==
    (dry_run /\ pc \in {"walk", "done"}) => (fs = fs0 /\ log.status = "absent")

\* C5 witness: a dry run has finished with an operation reported
C5_Witness == dry_run /\ pc = "done" /\ renamed_count >= 1

\* C6: every destination handed to os.rename resolves inside the root;
\* in a live run a computed destination that resolves outside it, or
\* whose resolution fails, ends in a skip with the source still in place.
C6_Containment ==
    /\ last.outcome \in {"rename", "rename_failed"} => last.new_resolves = "inside"
    /\ (~dry_run /\ last.new # NoPath /\ last.new_resolves # "inside")
          => /\ last.outcome \in {"skip_unsafe_target", "skip_target_exists"}
             /\ last.file \in DOMAIN fs
             /\ \A k \in 1..Len(disk_renames) : disk_renames[k][1] # last.file

\* C6 witness: a destination whose resolution fails was refused
C6_Witness ==
    /\ last.outcome = "skip_unsafe_target"
    /\ last.new_resolves = "error"
    /\ last.file \in DOMAIN fs

\* C7: the three counters partition the .pdf entries met so far, and a
\* finished run has met every .pdf entry of the tree.
C7_OutcomesPartition ==
    /\ total_files = renamed_count + skipped_count + error_count
    /\ pc = "done"
          => total_files = Cardinality({path \in DOMAIN fs0 : IsPdfName(path[2])})

\* C7 witness: a file was renamed after the reader had raised on another
C7_Witness ==
    /\ pc = "done"
    /\ error_count >= 1
    /\ last.outcome = "rename"
    /\ total_files = 2

\* what the log holds, as (original, new) pairs
LoggedPairs == [k \in 1..Len(log.blocks) |-> <<log.blocks[k].original, log.blocks[k].new>>]

\* C8 as stated: at the end of a live run the log is written if and only if
\* a rename was performed, and then holds one block per rename performed on
\* disk, in order, under a header whose total is the number of blocks.
C8_AsStated ==
    LiveRunDone
        => /\ log.status = "written" <=> disk_renames # <<>>
           /\ log.status = "written"
                 => (LoggedPairs = disk_renames /\ log.total = Len(log.blocks))

\* C8 amended: at the end of a live run the log write was attempted if and
\* only if a rename was performed, and unless the write itself failed the
\* log holds one block per rename performed on disk, in order, under a
\* header whose total is the number of blocks.
C8_AuditLog ==
    LiveRunDone
        => /\ log.status # "absent" <=> disk_renames # <<>>
           /\ log.status = "written"
                 => (LoggedPairs = disk_renames /\ log.total = Len(log.blocks))

\* C8 witness: a log of one block was written in a run where another
\* file's rename failed
C8_Witness ==
    /\ LiveRunDone
    /\ log.status = "written"
    /\ Len(log.blocks) = 1
    /\ error_count = 1

\* C10: a live run that follows a dry run on the same tree, and meets no
\* error the dry run did not meet, records the operations and the counts
\* the dry run reported.
C10_DryRunPreviewsLiveRun ==
    (LiveRunDone /\ prev.valid /\ prev.dry_run /\ prev.errors = error_count)
        => /\ rename_operations = prev.operations
           /\ renamed_count = prev.renamed
           /\ skipped_count = prev.skipped

\* the regular files of a tree that bear a .pdf name
RegularPdfs(tree) ==
    {path \in DOMAIN tree : tree[path].kind = "file" /\ IsPdfName(path[2])}

\* a step in which os.rename has succeeded
RenamePerformed == Len(disk_renames') = Len(disk_renames) + 1

\* the destination of the os.rename of such a step
RenameDestination == disk_renames'[Len(disk_renames')][2]

\* C11: in a live run, with and without duplicate handling, no regular
\* file is at the destination when os.rename is called, each rename leaves
\* the number of regular PDF files as it was, and so the tree holds as
\* many regular PDF files during and after the run as before it.
C11_NoOverwrite ==
    /\ [](Cardinality(RegularPdfs(fs)) = Cardinality(RegularPdfs(fs0)))
    /\ [][RenamePerformed
            => /\ ~dry_run
               /\ ~(RenameDestination \in DOMAIN fs
                      /\ fs[RenameDestination].kind = "file")
               /\ RenameDestination \in RegularPdfs(fs')
               /\ Cardinality(RegularPdfs(fs')) = Cardinality(RegularPdfs(fs))]_vars

\* C11 witness: with a regular file R.pdf in the way, a live run has
\* renamed another file to R (1).pdf and left both in the tree
C11_Witness ==
    /\ LiveRunDone
    /\ handle_duplicates
    /\ <<"root", Name_R>> \in RegularPdfs(fs0)
    /\ \E k \in 1..Len(disk_renames) : disk_renames[k][2] = <<"root", Name_R1>>
    /\ {<<"root", Name_R>>, <<"root", Name_R1>>} \subseteq RegularPdfs(fs)

-----------------------------------------------------------------------------
(* sanitize_filename and get_unique_filename called on their own *)

\* no run of process_pdfs is under way; pc is "call" before the function
\* under test has run and "return" after
NoRun ==
    /\ fs0 = fs
    /\ handle_duplicates = TRUE
    /\ dry_run = TRUE
    /\ dirs = <<>>
    /\ root_dir = ""
    /\ files = {}
    /\ total_files = 0
    /\ renamed_count = 0
    /\ skipped_count = 0
    /\ error_count = 0
    /\ rename_operations = <<>>
    /\ log = NoLog
    /\ prev = NoPrev
    /\ last = NoStep
    /\ disk_renames = <<>>

\* strings over chars of length at most n
RECURSIVE StringsUpTo(_, _)
StringsUpTo(chars, n) ==
    IF n = 0 THEN {<<>>}
    ELSE LET shorter == StringsUpTo(chars, n - 1)
         IN  shorter \cup {Append(t, c) : t \in shorter, c \in chars}

\* a letter, the characters strip('. ') removes, an invalid character, a
\* control character
SanitizerChars == {"a", " ", ".", "/", "TAB"}

\* length of what precedes and follows the filling of a title
MaxAffixLen == 2

\* titles of a few characters, and titles around the default max_length
SanitizerTitles ==
    {pre \o Fill("a", n) \o post :
        pre \in StringsUpTo(SanitizerChars, MaxAffixLen),
        post \in StringsUpTo(SanitizerChars, MaxAffixLen),
        n \in {0, MAX_FILENAME_LENGTH - 7, MAX_FILENAME_LENGTH - 5}}

InitSan ==
    /\ arg \in {[filename |-> t, max_length |-> MAX_FILENAME_LENGTH - 4] :
                   t \in SanitizerTitles}
    /\ ret = <<>>
    /\ pc = "call"
    /\ fs = <<>>
    /\ NoRun

Sanitize ==
    /\ pc = "call"
    /\ ret' = sanitize_filename_max(arg.filename, arg.max_length)
    /\ pc' = "return"
    /\ UNCHANGED <<fs, fs0, handle_duplicates, dry_run, dirs, root_dir, files,
                   total_files, renamed_count, skipped_count, error_count,
                   rename_operations, log, prev, last, disk_renames, arg>>

SpecSan == InitSan /\ [][Sanitize]_vars

HasDotDot(s) == \E i \in 1..(Len(s) - 1) : s[i] = "." /\ s[i + 1] = "."

Contains(s, chars) == \E i \in 1..Len(s) : s[i] \in chars

\* C3: what sanitize_filename returns holds no invalid character, no
\* control character and no "..", neither starts nor ends with a dot or
\* whitespace, and is at most max_length long.
C3_SanitizerSafety ==
    pc = "return"
        => /\ ~Contains(ret, {invalid_chars[i] : i \in 1..Len(invalid_chars)})
           /\ \A i \in 1..Len(ret) : Ord(ret[i]) >= 32
           /\ ~HasDotDot(ret)
           /\ ret # <<>> => /\ ret[1] \notin Whitespace \cup {"."}
                            /\ ret[Len(ret)] \notin Whitespace \cup {"."}
           /\ Len(ret) <= arg.max_length

\* how many of the first candidates a directory under test may hold
MaxTaken == 3

\* base names: short, and at the longest sanitize_filename returns
UniqueBases ==
    {<<"R">>, Fill("a", MAX_FILENAME_LENGTH - 4), Fill("a", MAX_FILENAME_LENGTH - 8)}

\* what may stand under a candidate name
Occupants == {File("none", <<>>), Link("inside", FALSE), Link("outside", TRUE)}

\* directories holding some of the first candidates of a base name
SparseDirectories(base_name) ==
    UNION {[{CandidatePath("root", base_name, k) : k \in S} -> Occupants] :
             S \in SUBSET (0..(MaxTaken - 1))}

\* a directory holding every candidate of a base name from base.pdf to
\* the one numbered upto
FullDirectory(base_name, upto) ==
    [path \in {CandidatePath("root", base_name, k) : k \in 0..upto}
        |-> File("none", <<>>)]

InitUnique ==
    /\ \E base_name \in UniqueBases :
          /\ arg = [directory |-> "root", base_name |-> base_name]
          /\ fs \in SparseDirectories(base_name)
                    \cup {FullDirectory(<<"R">>, max_attempts - 1),
                          FullDirectory(<<"R">>, max_attempts - 2)}
    /\ ret = [path |-> NoPath, error |-> NoError]
    /\ pc = "call"
    /\ NoRun

GetUnique ==
    /\ pc = "call"
    /\ ret' = get_unique_filename(arg.directory, arg.base_name)
    /\ pc' = "return"
    /\ UNCHANGED <<fs, fs0, handle_duplicates, dry_run, dirs, root_dir, files,
                   total_files, renamed_count, skipped_count, error_count,
                   rename_operations, log, prev, last, disk_renames, arg>>

SpecUnique == InitUnique /\ [][GetUnique]_vars

\* the numbers of the candidates that neither exist nor are links
FreeCandidates(directory, base_name) ==
    {k \in 0..(max_attempts - 1) :
        LET path == CandidatePath(directory, base_name, k)
        IN  ~exists(path) /\ ~islink(path)}

\* C9: get_unique_filename returns the first candidate that neither exists
\* nor is a symbolic link, going on to the numbered candidates whenever
\* base.pdf is not free, and fails only when every candidate is taken.
C9_FirstFreeCandidate ==
    pc = "return"
        => LET free == FreeCandidates(arg.directory, arg.base_name)
           IN  IF free = {}
               THEN ret.path = NoPath /\ ret.error # NoError
               ELSE /\ ret.error = NoError
                    /\ ret.path = CandidatePath(arg.directory, arg.base_name,
                                     CHOOSE k \in free : \A j \in free : k <= j)

=============================================================================
